---- MODULE Spec2Model ----
(***************************************************************************)
(* Model of the process bootstrap of Plex Media Player (src/src/main.cpp): *)
(* main()'s startup / run / teardown sequence, the log redaction callback  *)
(* (elidePattern, processLog) and the argument vector rebuilt by           *)
(* appendCommandLineArguments.  UniqueApplication is not part of main.cpp; *)
(* its ensureUnique() is modelled after section 4.1 of the specification.  *)
(***************************************************************************)
EXTENDS Integers, Sequences, FiniteSets, TLC

VARIABLES
  procs,        \* the launches (processes) of this run of the model
  platform,     \* the build: which #ifdef branches of main.cpp are compiled
  pc,           \* pc[p]: the statement of main() process p is at
  argv,         \* argv[p]: the argument vector the process was started with
  n,            \* n[p]: the index of the flag scan loop (main.cpp:188)
  startHidden,  \* startHidden[p] (main.cpp:184)
  newArgc,      \* newArgc[p] (main.cpp:205)
  newArgv,      \* newArgv[p]: the strings copied into newArgs (main.cpp:148)
  oob,          \* oob[p]: the kinds of out-of-bounds write the process made
  calls,        \* calls[p]: the calls main() has made so far, in order
  faultAt,      \* faultAt[p]: the call that raised a FatalException, or "none"
  uniqueResult, \* what ensureUnique() reported: "none", "leader", "forwarded"
  updateResult, \* what CheckForUpdates() returned: "none", "update", "noupdate"
  ret,          \* ret[p]: what app.exec() returned (main.cpp:288; -1: not yet)
  exitCode,     \* exitCode[p]: the value main() returned (-1: not yet)
  lockOwner,    \* the holder of the single-instance lock resource
  listening,    \* the processes whose companion channel is reachable
  inbox,        \* inbox[q]: the launches whose invocation was forwarded to q
  observed,     \* observed[p]: the lock holder p saw when acquisition failed
  tries,        \* tries[p]: the retries of the single-instance check so far
  msg,          \* the log message being processed (QString& msg)
  msg0,         \* the message as it was handed to processLog
  start,        \* elidePattern's search position (main.cpp:83)
  substring,    \* elidePattern's parameter substring (main.cpp:81)
  chars,        \* elidePattern's parameter chars (main.cpp:81)
  masked,       \* the occurrences <<substring, position>> the for loop has masked
  logpc         \* the position of the logging callback

mainVars == <<procs, platform, pc, argv, n, startHidden, newArgc, newArgv, oob,
              calls, faultAt, uniqueResult, updateResult, ret, exitCode>>
coordVars == <<lockOwner, listening, inbox, observed, tries>>
logVars == <<msg, msg0, start, substring, chars, masked, logpc>>
vars == <<mainVars, coordVars, logVars>>

---------------------------------------------------------------------------
(* Bounds of the model. *)

\* the number of arguments after the program name that Init enumerates freely
MaxArgs == 2
\* the number of concurrently launched processes
NumProcs == 2
\* the largest value the event loop returns
MaxRet == 1
\* the longest token value following a pattern in an enumerated log message
MaxToken == 21
\* the longest message, the longest pattern and the largest mask length handed
\* to elidePattern called on its own
MaxMsg == 5
MaxPat == 2
MaxChars == 2

(* Constants of the program. *)

\* static char *newArgs[16]
NewArgsSize == 16
\* malloc(256)
BufSize == 256
\* elidePattern(msg, ..., 20)
ElideChars == 20
\* "within one bounded retry"
MaxRetry == 1

---------------------------------------------------------------------------
(* Strings are sequences of characters; a non-ASCII byte is written by its  *)
(* hexadecimal value ("xC3").                                               *)

Rep(c, k) == [i \in 1..k |-> c]

Min(S) == CHOOSE x \in S : \A y \in S : x <= y

\* QString::indexOf(substring, from): 0-based, -1 when there is none
IndexOf(s, sub, from) ==
  LET cand == { i \in from..(Len(s) - Len(sub)) :
                  \A j \in 1..Len(sub) : s[i + j] = sub[j] }
  IN IF from < 0 \/ cand = {} THEN -1 ELSE Min(cand)

TokenEq == <<"X","-","P","l","e","x","-","T","o","k","e","n","=">>
TokenPct == <<"X","-","P","l","e","x","-","T","o","k","e","n","%","3","D">>

---------------------------------------------------------------------------
(* elidePattern and processLog, main.cpp:81-100. *)

\* the condition of the break at main.cpp:87, for the occurrence found at `found`
ElideStops(m, pat, cnt, found) ==
  found < 0 \/ found + Len(pat) + cnt > Len(m)

\* mutant: the for loop writes one character more
MaskFromOneMore(m, from, cnt) ==
  [i \in 1..Len(m) |-> IF i - 1 >= from /\ i - 1 <= from + cnt THEN "x" ELSE m[i]]

\* the for loop of main.cpp:90-91: msg[from + k] = 'x' for k in 0..chars-1
MaskFrom(m, from, cnt) ==
  [i \in 1..Len(m) |-> IF i - 1 >= from /\ i - 1 < from + cnt THEN "x" ELSE m[i]]

\* the pattern the callback is eliding at each position (main.cpp:98-99)
PatternAt(at) == IF at = "elide1" THEN TokenEq ELSE TokenPct

\* the positions of the callback inside elidePattern: the two calls processLog
\* makes, and a call of elidePattern on its own
Eliding == {"elide1", "elide2", "elide"}

\* processLog is entered with a message: elidePattern(msg, "X-Plex-Token=", 20)
\* is called, and its start = 0
ProcessLogEnter ==
  /\ logpc = "idle"
  /\ logpc' = "elide1"
  /\ substring' = PatternAt("elide1")
  /\ chars' = ElideChars
  /\ start' = 0
  /\ UNCHANGED <<msg, msg0, masked, mainVars, coordVars>>

\* mutant: the search position stays at the occurrence found
ElideIterateNoAdvance ==
  /\ logpc \in Eliding
  /\ LET found == IndexOf(msg, substring, start)
     IN /\ ~ElideStops(msg, substring, chars, found)
        /\ start' = found
        /\ msg' = MaskFrom(msg, found + Len(substring), chars)
        /\ masked' = masked \cup {<<substring, found>>}
  /\ UNCHANGED <<logpc, msg0, substring, chars, mainVars, coordVars>>

\* one iteration of the while loop that finds an occurrence and masks it
ElideIterate ==
  /\ logpc \in Eliding
  /\ LET found == IndexOf(msg, substring, start)
     IN /\ ~ElideStops(msg, substring, chars, found)
        /\ start' = found + Len(substring)
        /\ msg' = MaskFrom(msg, found + Len(substring), chars)
        /\ masked' = masked \cup {<<substring, found>>}
  /\ UNCHANGED <<logpc, msg0, substring, chars, mainVars, coordVars>>

\* the iteration that breaks out of the loop: elidePattern returns, and
\* processLog calls it for its second pattern
ElideBreak ==
  /\ logpc \in Eliding
  /\ LET found == IndexOf(msg, substring, start)
     IN /\ ElideStops(msg, substring, chars, found)
        /\ start' = IF logpc = "elide1" THEN 0 ELSE found
  /\ logpc' = IF logpc = "elide1" THEN "elide2" ELSE "done"
  /\ substring' = IF logpc = "elide1" THEN PatternAt("elide2") ELSE substring
  /\ UNCHANGED <<msg, msg0, chars, masked, mainVars, coordVars>>

\* the log messages Init enumerates: text, a pattern, a token value, and
\* possibly a second parameter with a pattern and a token value of its own
Patterns == {TokenEq, TokenPct}
Leads == {<< >>, <<"?">>}
Seconds ==
  {<< >>} \cup { <<"&">> \o p \o Rep("u", k) : p \in Patterns, k \in 0..MaxToken }
Messages ==
  { l \o s : l \in Leads, s \in Seconds } \cup
  { l \o p \o Rep("t", k) \o s :
      l \in Leads, p \in Patterns, k \in 0..MaxToken, s \in Seconds }

---------------------------------------------------------------------------
(* Argument strings. *)

Prog == <<"p","m","p">>
Licenses == <<"-","-","l","i","c","e","n","s","e","s">>
Hidden == <<"-","-","h","i","d","d","e","n">>
\* a file name in UTF-8 ("a" followed by e-acute) and the same name in Latin-1
FileArg == <<"a","xC3","xA9">>
Latin1Arg == <<"a","xE9">>
DisableGpu == <<"-","-","d","i","s","a","b","l","e","-","g","p","u">>
EnableViewport ==
  <<"-","-","e","n","a","b","l","e","-","v","i","e","w","p","o","r","t">>
EnableViewportMeta == EnableViewport \o <<"-","m","e","t","a">>

Platforms == {"win32", "mac", "linux", "openelec"}
\* Q_OS_UNIX is defined on macOS and Linux builds
IsUnix(plat) == plat \in {"mac", "linux", "openelec"}

\* the bytes above 0x7F the model's strings use
NonAscii == {"xC3", "xA9", "xE9", "xEF", "xBF", "xBD"}

\* b[i] is a continuation byte of a well-formed sequence (xC3 xA9, xEF xBF xBD)
Continues(b, i) ==
  \/ i > 1 /\ b[i-1] = "xC3" /\ b[i] = "xA9"
  \/ i > 1 /\ i < Len(b) /\ b[i-1] = "xEF" /\ b[i] = "xBF" /\ b[i+1] = "xBD"
  \/ i > 2 /\ b[i-2] = "xEF" /\ b[i-1] = "xBF" /\ b[i] = "xBD"

\* the code point decoded at position i of b
DecodeAt(b, i) ==
  IF b[i] \notin NonAscii THEN b[i]
  ELSE IF i < Len(b) /\ b[i] = "xC3" /\ b[i+1] = "xA9" THEN "U+00E9"
  ELSE "U+FFFD"

\* QString(const char*): QString::fromUtf8; every byte that is not part of a
\* well-formed sequence becomes U+FFFD
FromUtf8(b) ==
  SelectSeq([i \in 1..Len(b) |-> IF Continues(b, i) THEN "" ELSE DecodeAt(b, i)],
            LAMBDA c : c # "")

\* the k-th byte (1..3) of the UTF-8 encoding of code point c, "" when it has none
EncodeByte(c, k) ==
  CASE c = "U+00E9" -> <<"xC3", "xA9", "">>[k]
    [] c = "U+FFFD" -> <<"xEF", "xBF", "xBD">>[k]
    [] OTHER -> <<c, "", "">>[k]

\* QString::toStdString: QString::toUtf8
ToUtf8(u) ==
  SelectSeq([j \in 1..(3 * Len(u)) |-> EncodeByte(u[((j - 1) \div 3) + 1], ((j - 1) % 3) + 1)],
            LAMBDA c : c # "")

---------------------------------------------------------------------------
(* appendCommandLineArguments, main.cpp:146-179. *)

\* the flags appended at main.cpp:158-167
AppendedFlags(plat) ==
  (IF plat = "openelec" THEN <<DisableGpu>> ELSE << >>)
    \o <<EnableViewport, EnableViewportMeta>>

\* argList after main.cpp:152-167
ArgList(av, plat) == [i \in 1..Len(av) |-> FromUtf8(av[i])] \o AppendedFlags(plat)

\* the string strcpy writes for entry iarg (main.cpp:175), without its NUL
CopiedArg(av, plat, iarg) == ToUtf8(ArgList(av, plat)[iarg])

\* the writes of the rebuild loop (main.cpp:172-176) that fall outside the
\* object they are made to: newArgs has NewArgsSize slots, each buffer BufSize
\* bytes, and strcpy writes the string and its terminating NUL
OutOfBounds(av, plat) ==
  LET list == ArgList(av, plat)
  IN (IF Len(list) > NewArgsSize THEN {"table"} ELSE {}) \cup
     (IF \E i \in 1..Len(list) : Len(ToUtf8(list[i])) + 1 > BufSize
        THEN {"buffer"} ELSE {})

---------------------------------------------------------------------------
(* main, main.cpp:182-312.  pc[p] names the call the process makes next.    *)

NoProc == "none"
\* an instance that was started before the launches of the model
Prior == "prior"

Called(p, c) == \E i \in 1..Len(calls[p]) : calls[p][i] = c
\* the call was made and returned (it did not raise the fault)
Completed(p, c) == Called(p, c) /\ faultAt[p] # c
\* the position of the first call of c (0: none)
IndexOfCall(p, c) ==
  IF Called(p, c) THEN Min({ i \in 1..Len(calls[p]) : calls[p][i] = c }) ELSE 0

Goto(p, label) == pc' = [pc EXCEPT ![p] = label]
Record(p, cs) == calls' = [calls EXCEPT ![p] = @ \o cs]

\* main returns `code`: the process ends, and its companion channel with it
Return(p, code) ==
  /\ Goto(p, "exited")
  /\ exitCode' = [exitCode EXCEPT ![p] = code]
  /\ listening' = listening \ {p}

inputVars == <<procs, platform, argv>>
argVars == <<n, startHidden, newArgc, newArgv, oob>>
resultVars == <<faultAt, uniqueResult, updateResult, ret, exitCode>>

\* mutant: "--licenses" is recognized as the first argument only
ScanArgFirstOnly(p) ==
  /\ pc[p] = "scan"
  /\ n[p] < Len(argv[p])
  /\ LET arg == argv[p][n[p] + 1]
     IN IF arg = Licenses /\ n[p] = 1
          THEN /\ Record(p, <<"printLicenses">>)
               /\ Return(p, 0)
               /\ UNCHANGED <<n, startHidden>>
          ELSE /\ startHidden' = [startHidden EXCEPT ![p] = @ \/ arg = Hidden]
               /\ n' = [n EXCEPT ![p] = @ + 1]
               /\ UNCHANGED <<pc, calls, exitCode, listening>>
  /\ UNCHANGED <<inputVars, newArgc, newArgv, oob, faultAt, uniqueResult,
                 updateResult, ret, lockOwner, inbox, observed, tries, logVars>>

\* one iteration of the flag loop, main.cpp:188-203
ScanArg(p) ==
  /\ pc[p] = "scan"
  /\ n[p] < Len(argv[p])
  /\ LET arg == argv[p][n[p] + 1]
     IN IF arg = Licenses
          THEN /\ Record(p, <<"printLicenses">>)
               /\ Return(p, 0)
               /\ UNCHANGED <<n, startHidden>>
          ELSE /\ startHidden' = [startHidden EXCEPT ![p] = @ \/ arg = Hidden]
               /\ n' = [n EXCEPT ![p] = @ + 1]
               /\ UNCHANGED <<pc, calls, exitCode, listening>>
  /\ UNCHANGED <<inputVars, newArgc, newArgv, oob, faultAt, uniqueResult,
                 updateResult, ret, lockOwner, inbox, observed, tries, logVars>>

\* the loop ends (n = argc)
ScanDone(p) ==
  /\ pc[p] = "scan"
  /\ n[p] >= Len(argv[p])
  /\ Goto(p, "appendCommandLineArguments")
  /\ UNCHANGED <<inputVars, argVars, calls, resultVars, coordVars, logVars>>

\* main.cpp:205-206.  A write outside newArgs or outside a buffer is undefined
\* behaviour: the process goes on with the memory overwritten, or it dies.
AppendArgs(p) ==
  /\ pc[p] = "appendCommandLineArguments"
  /\ LET list == ArgList(argv[p], platform)
         bad == OutOfBounds(argv[p], platform)
     IN /\ newArgc' = [newArgc EXCEPT ![p] = Len(list)]
        /\ newArgv' = [newArgv EXCEPT ![p] =
                         [i \in 1..Len(list) |-> CopiedArg(argv[p], platform, i)]]
        /\ oob' = [oob EXCEPT ![p] = bad]
        /\ \/ Goto(p, "preinitQt") /\ UNCHANGED listening
           \/ bad # {} /\ Goto(p, "crashed") /\ listening' = listening \ {p}
  /\ Record(p, <<"appendCommandLineArguments">>)
  /\ UNCHANGED <<inputVars, n, startHidden, resultVars, lockOwner, inbox,
                 observed, tries, logVars>>

\* main.cpp:208-224 and preinitQt, main.cpp:31-50
PreinitQt(p) ==
  /\ pc[p] = "preinitQt"
  /\ Record(p, (IF platform = "mac" THEN <<"setDefaultFormat">> ELSE << >>)
               \o <<"preinitQt">>
               \o (IF platform = "win32" THEN <<"readPreinitValue">> ELSE << >>))
  /\ Goto(p, "QGuiApplication")
  /\ UNCHANGED <<inputVars, argVars, resultVars, coordVars, logVars>>

\* main.cpp:225-226
CreateApp(p) ==
  /\ pc[p] = "QGuiApplication"
  /\ Record(p, <<"QGuiApplication">>)
  /\ Goto(p, "setupCrashDumper")
  /\ UNCHANGED <<inputVars, argVars, resultVars, coordVars, logVars>>

\* mutant: the crash reporter is not installed
CrashDumperOmitted(p) ==
  /\ pc[p] = "setupCrashDumper"
  /\ Goto(p, "ensureUnique")
  /\ UNCHANGED <<inputVars, argVars, calls, resultVars, coordVars, logVars>>

\* main.cpp:229
SetupCrashDumper(p) ==
  /\ pc[p] = "setupCrashDumper"
  /\ Record(p, <<"setupCrashDumper">>)
  /\ Goto(p, "ensureUnique")
  /\ UNCHANGED <<inputVars, argVars, resultVars, coordVars, logVars>>

---------------------------------------------------------------------------
(* UniqueApplication::ensureUnique, called at main.cpp:231-233.  Its body   *)
(* follows section 4.1: exclusive acquisition of the lock resource, a probe *)
(* of the holder's companion channel, forwarding, stale-lock recovery with  *)
(* one retry, and a StartupError when neither acquisition nor forwarding    *)
(* succeeds.                                                                *)

\* mutant: the result of ensureUnique is ignored
ContinuesAlways(leader) == TRUE

\* if (!uniqueApp->ensureUnique()) return EXIT_SUCCESS;  -- whether main goes on
ContinuesAfterUnique(leader) == leader

\* main.cpp:232-241 once ensureUnique has returned `leader`
UniqueReturns(p, leader) ==
  /\ uniqueResult' = [uniqueResult EXCEPT ![p] =
                        IF leader THEN "leader" ELSE "forwarded"]
  /\ IF ContinuesAfterUnique(leader)
       THEN /\ Goto(p, IF IsUnix(platform) THEN "SignalManager" ELSE "initLogger")
            /\ UNCHANGED exitCode
       ELSE /\ Goto(p, "exited")
            /\ exitCode' = [exitCode EXCEPT ![p] = 0]

\* the launch becomes Leader: it holds the lock and binds the listener
BecomeLeader(p) ==
  /\ lockOwner' = p
  /\ listening' = listening \cup {p}

\* ensureUnique fails fast with a StartupError, which main catches
StartupError(p) ==
  /\ faultAt' = [faultAt EXCEPT ![p] = "ensureUnique"]
  /\ Goto(p, "catch")

\* the call, and the attempt to acquire the lock resource
TryAcquire(p) ==
  /\ pc[p] = "ensureUnique"
  /\ Record(p, <<"ensureUnique">>)
  /\ IF lockOwner = NoProc
       THEN /\ BecomeLeader(p)
            /\ UniqueReturns(p, TRUE)
            /\ UNCHANGED observed
       ELSE /\ observed' = [observed EXCEPT ![p] = lockOwner]
            /\ Goto(p, "probe")
            /\ UNCHANGED <<lockOwner, listening, uniqueResult, exitCode>>
  /\ UNCHANGED <<inputVars, argVars, faultAt, updateResult, ret, inbox, tries,
                 logVars>>

\* the lock is held: is the holder's companion channel reachable?
ProbeChannel(p) ==
  /\ pc[p] = "probe"
  /\ IF observed[p] \in listening
       THEN \/ /\ inbox' = [inbox EXCEPT ![observed[p]] = @ \cup {p}]
               /\ UniqueReturns(p, FALSE)
               /\ UNCHANGED faultAt
            \/ /\ StartupError(p)
               /\ UNCHANGED <<inbox, uniqueResult, exitCode>>
       ELSE /\ Goto(p, "reclaim")
            /\ UNCHANGED <<inbox, uniqueResult, exitCode, faultAt>>
  /\ UNCHANGED <<inputVars, argVars, calls, updateResult, ret, lockOwner,
                 listening, observed, tries, logVars>>

\* stale-lock recovery: the lock is taken from the holder that was found dead,
\* under the lock resource's exclusive acquisition; if it has changed hands the
\* check is retried once
ReclaimLock(p) ==
  /\ pc[p] = "reclaim"
  /\ IF lockOwner = observed[p]
       THEN /\ BecomeLeader(p)
            /\ UniqueReturns(p, TRUE)
            /\ UNCHANGED <<observed, tries, faultAt>>
       ELSE IF tries[p] < MaxRetry
         THEN /\ tries' = [tries EXCEPT ![p] = @ + 1]
              /\ observed' = [observed EXCEPT ![p] = lockOwner]
              /\ Goto(p, "probe")
              /\ UNCHANGED <<lockOwner, listening, uniqueResult, exitCode, faultAt>>
         ELSE /\ StartupError(p)
              /\ UNCHANGED <<lockOwner, listening, uniqueResult, exitCode,
                             observed, tries>>
  /\ UNCHANGED <<inputVars, argVars, calls, updateResult, ret, inbox, logVars>>

---------------------------------------------------------------------------
(* main after the single-instance check, main.cpp:235-293. *)

\* SignalManager signalManager(&app), main.cpp:235-239 (Q_OS_UNIX)
InstallSignals(p) ==
  /\ pc[p] = "SignalManager"
  /\ Record(p, <<"SignalManager">>)
  /\ Goto(p, "initLogger")
  /\ UNCHANGED <<inputVars, argVars, resultVars, coordVars, logVars>>

\* mutant: the logger is not initialized
InitLoggerOmitted(p) ==
  /\ pc[p] = "initLogger"
  /\ Goto(p, "CheckForUpdates")
  /\ UNCHANGED <<inputVars, argVars, calls, resultVars, coordVars, logVars>>

\* initLogger and the three QLOG_INFO lines, main.cpp:241-244
InitLogger(p) ==
  /\ pc[p] = "initLogger"
  /\ Record(p, <<"initLogger", "QLOG_INFO">>)
  /\ Goto(p, "CheckForUpdates")
  /\ UNCHANGED <<inputVars, argVars, resultVars, coordVars, logVars>>

\* mutant: the result of CheckForUpdates is ignored
UpdateGateIgnored(found) == FALSE

\* if (UpdateManager::CheckForUpdates()) -- whether main leaves for the update
UpdateGateExits(found) == found

\* main.cpp:247
CheckForUpdates(p) ==
  /\ pc[p] = "CheckForUpdates"
  /\ Record(p, <<"CheckForUpdates">>)
  /\ \E found \in BOOLEAN :
       /\ updateResult' = [updateResult EXCEPT ![p] =
                             IF found THEN "update" ELSE "noupdate"]
       /\ Goto(p, IF UpdateGateExits(found) THEN "quit"
                  ELSE IF platform = "win32" THEN "initD3DDevice"
                  ELSE "initialize")
  /\ UNCHANGED <<inputVars, argVars, faultAt, uniqueResult, ret, exitCode,
                 coordVars, logVars>>

\* app.quit(); return 0;  main.cpp:249-250
QuitForUpdate(p) ==
  /\ pc[p] = "quit"
  /\ Record(p, <<"quit">>)
  /\ Return(p, 0)
  /\ UNCHANGED <<inputVars, argVars, faultAt, uniqueResult, updateResult, ret,
                 lockOwner, inbox, observed, tries, logVars>>

\* initD3DDevice, main.cpp:253-255 (Q_OS_WIN32)
InitD3D(p) ==
  /\ pc[p] = "initD3DDevice"
  /\ Record(p, <<"initD3DDevice">>)
  /\ Goto(p, "initialize")
  /\ UNCHANGED <<inputVars, argVars, resultVars, coordVars, logVars>>

\* mutant: the components are not initialized
InitializeOmitted(p) ==
  /\ pc[p] = "initialize"
  /\ Goto(p, "QtWebEngine")
  /\ UNCHANGED <<inputVars, argVars, calls, resultVars, coordVars, logVars>>

\* ComponentManager::Get().initialize(), main.cpp:264
ComponentsInitialize(p) ==
  /\ pc[p] = "initialize"
  /\ Record(p, <<"initialize">>)
  /\ Goto(p, "QtWebEngine")
  /\ UNCHANGED <<inputVars, argVars, resultVars, coordVars, logVars>>

\* the remoteInspector setting and QtWebEngine::initialize(), main.cpp:267-276
InitWebEngine(p) ==
  /\ pc[p] = "QtWebEngine"
  /\ Record(p, <<"QtWebEngine">>)
  /\ Goto(p, "connectToHelper")
  /\ UNCHANGED <<inputVars, argVars, resultVars, coordVars, logVars>>

\* HelperLauncher::Get().connectToHelper(), main.cpp:279
ConnectToHelper(p) ==
  /\ pc[p] = "connectToHelper"
  /\ Record(p, <<"connectToHelper">>)
  /\ Goto(p, "updateLogLevel")
  /\ UNCHANGED <<inputVars, argVars, resultVars, coordVars, logVars>>

\* mutant: the UI is loaded whatever startHidden says
UpdateLogLevelAlwaysLoads(p) ==
  /\ pc[p] = "updateLogLevel"
  /\ Record(p, <<"updateLogLevel">>)
  /\ Goto(p, "loadUI")
  /\ UNCHANGED <<inputVars, argVars, resultVars, coordVars, logVars>>

\* updateLogLevel(), then if (!startHidden); main.cpp:282-284
UpdateLogLevel(p) ==
  /\ pc[p] = "updateLogLevel"
  /\ Record(p, <<"updateLogLevel">>)
  /\ Goto(p, IF ~startHidden[p] THEN "loadUI" ELSE "exec")
  /\ UNCHANGED <<inputVars, argVars, resultVars, coordVars, logVars>>

\* mutant: the UI is not loaded
LoadUIOmitted(p) ==
  /\ pc[p] = "loadUI"
  /\ Goto(p, "exec")
  /\ UNCHANGED <<inputVars, argVars, calls, resultVars, coordVars, logVars>>

\* KonvergoEngine::Get().loadUI(), main.cpp:285
LoadUI(p) ==
  /\ pc[p] = "loadUI"
  /\ Record(p, <<"loadUI">>)
  /\ Goto(p, "exec")
  /\ UNCHANGED <<inputVars, argVars, resultVars, coordVars, logVars>>

\* app.exec() is entered, main.cpp:288: the event loop runs
Exec(p) ==
  /\ pc[p] = "exec"
  /\ Record(p, <<"exec">>)
  /\ Goto(p, "running")
  /\ UNCHANGED <<inputVars, argVars, resultVars, coordVars, logVars>>

\* mutant: main returns right after the event loop, without unload()
ExecReturnNoUnload(p) ==
  /\ pc[p] = "running"
  /\ \E code \in 0..MaxRet : ret' = [ret EXCEPT ![p] = code]
  /\ Goto(p, "deleteUniqueApp")
  /\ UNCHANGED <<inputVars, argVars, calls, faultAt, uniqueResult, updateResult,
                 exitCode, coordVars, logVars>>

\* the event loop returns the code it was left with: int ret = app.exec()
ExecReturn(p) ==
  /\ pc[p] = "running"
  /\ \E code \in 0..MaxRet : ret' = [ret EXCEPT ![p] = code]
  /\ Goto(p, "unload")
  /\ UNCHANGED <<inputVars, argVars, calls, faultAt, uniqueResult, updateResult,
                 exitCode, coordVars, logVars>>

\* KonvergoEngine::Get().unload(), main.cpp:290
Unload(p) ==
  /\ pc[p] = "unload"
  /\ Record(p, <<"unload">>)
  /\ Goto(p, "deleteUniqueApp")
  /\ UNCHANGED <<inputVars, argVars, resultVars, coordVars, logVars>>

\* mutant: main returns 0 whatever the event loop returned
DeleteUniqueAppReturnsZero(p) ==
  /\ pc[p] = "deleteUniqueApp"
  /\ Record(p, <<"deleteUniqueApp">>)
  /\ lockOwner' = IF lockOwner = p THEN NoProc ELSE lockOwner
  /\ Return(p, 0)
  /\ UNCHANGED <<inputVars, argVars, faultAt, uniqueResult, updateResult, ret,
                 inbox, observed, tries, logVars>>

\* delete uniqueApp; return ret;  main.cpp:292-293.  The Leader releases the lock.
DeleteUniqueApp(p) ==
  /\ pc[p] = "deleteUniqueApp"
  /\ Record(p, <<"deleteUniqueApp">>)
  /\ lockOwner' = IF lockOwner = p THEN NoProc ELSE lockOwner
  /\ Return(p, ret[p])
  /\ UNCHANGED <<inputVars, argVars, faultAt, uniqueResult, updateResult, ret,
                 inbox, observed, tries, logVars>>

---------------------------------------------------------------------------
(* FatalException and the handler, main.cpp:186 and 295-311. *)

\* the calls of the try block that may raise a FatalException; "running" is
\* the event loop, inside app.exec()
Throwing ==
  {"preinitQt", "QGuiApplication", "setupCrashDumper", "SignalManager",
   "initLogger", "CheckForUpdates", "initD3DDevice", "initialize", "QtWebEngine",
   "connectToHelper", "updateLogLevel", "loadUI", "running", "unload"}

\* mutant: a failure of initialize() is noted and main goes on
ThrowIgnoresInitialize(p) ==
  /\ pc[p] \in Throwing
  /\ faultAt' = [faultAt EXCEPT ![p] = IF pc[p] = "running" THEN "exec" ELSE pc[p]]
  /\ Record(p, IF pc[p] = "running" THEN << >> ELSE <<pc[p]>>)
  /\ Goto(p, IF pc[p] = "initialize" THEN "QtWebEngine" ELSE "catch")
  /\ UNCHANGED <<inputVars, argVars, uniqueResult, updateResult, ret, exitCode,
                 coordVars, logVars>>

\* the call at pc[p] is made and raises: control goes to catch (FatalException&)
Throw(p) ==
  /\ pc[p] \in Throwing
  /\ faultAt' = [faultAt EXCEPT ![p] = IF pc[p] = "running" THEN "exec" ELSE pc[p]]
  /\ Record(p, IF pc[p] = "running" THEN << >> ELSE <<pc[p]>>)
  /\ Goto(p, "catch")
  /\ UNCHANGED <<inputVars, argVars, uniqueResult, updateResult, ret, exitCode,
                 coordVars, logVars>>

\* mutant: the handler logs the fault and shows nothing
CatchFaultNoView(p) ==
  /\ pc[p] = "catch"
  /\ Record(p, <<"QLOG_FATAL">>)
  /\ Goto(p, "errorRunning")
  /\ UNCHANGED <<inputVars, argVars, resultVars, coordVars, logVars>>

\* QLOG_FATAL, the second QGuiApplication, the error view and its event loop;
\* main.cpp:298-308
CatchFault(p) ==
  /\ pc[p] = "catch"
  /\ Record(p, <<"QLOG_FATAL", "errorApp", "errorView", "errorExec">>)
  /\ Goto(p, "errorRunning")
  /\ UNCHANGED <<inputVars, argVars, resultVars, coordVars, logVars>>

\* mutant: the handler returns success
ErrorReturnSuccess(p) ==
  /\ pc[p] = "errorRunning"
  /\ Return(p, 0)
  /\ UNCHANGED <<inputVars, argVars, calls, faultAt, uniqueResult, updateResult,
                 ret, lockOwner, inbox, observed, tries, logVars>>

\* return 1; main.cpp:309
ErrorReturn(p) ==
  /\ pc[p] = "errorRunning"
  /\ Return(p, 1)
  /\ UNCHANGED <<inputVars, argVars, calls, faultAt, uniqueResult, updateResult,
                 ret, lockOwner, inbox, observed, tries, logVars>>

\* the running process dies (a crash, a kill): its lock resource stays behind
Crash(p) ==
  /\ pc[p] = "running"
  /\ Goto(p, "crashed")
  /\ listening' = listening \ {p}
  /\ UNCHANGED <<inputVars, argVars, calls, resultVars, lockOwner, inbox,
                 observed, tries, logVars>>

---------------------------------------------------------------------------
(* Initial states and specifications. *)

\* the arguments Init enumerates freely
ArgChoices == {Licenses, Hidden, FileArg, Rep("a", BufSize)}

\* every vector of up to MaxArgs of them, and the vectors at the limits of the
\* buffers and of newArgs
Argvs ==
  { <<Prog>> \o s : s \in UNION { [1..k -> ArgChoices] : k \in 0..MaxArgs } }
    \cup { <<Prog, Rep("a", BufSize - 1)>>, <<Prog, Hidden, FileArg, Latin1Arg>> }
    \cup { <<Prog>> \o Rep(FileArg, k) : k \in (NewArgsSize - 4)..(NewArgsSize - 2) }

\* the log callback is not running
LogOff ==
  /\ msg = << >>
  /\ msg0 = << >>
  /\ start = 0
  /\ substring = << >>
  /\ chars = 0
  /\ masked = {}
  /\ logpc = "off"

\* the lock resource when the launches start: free, held by a live instance,
\* or left behind by an instance that died
CoordInit ==
  /\ lockOwner \in {NoProc, Prior}
  /\ listening \in {{}, {Prior} \cap {lockOwner}}
  /\ inbox = [q \in procs \cup {Prior} |-> {}]
  /\ observed = [p \in procs |-> NoProc]
  /\ tries = [p \in procs |-> 0]

MainInit ==
  /\ pc = [p \in procs |-> "scan"]
  /\ n = [p \in procs |-> 1]
  /\ startHidden = [p \in procs |-> FALSE]
  /\ newArgc = [p \in procs |-> Len(argv[p])]
  /\ newArgv = [p \in procs |-> << >>]
  /\ oob = [p \in procs |-> {}]
  /\ calls = [p \in procs |-> << >>]
  /\ faultAt = [p \in procs |-> "none"]
  /\ uniqueResult = [p \in procs |-> "none"]
  /\ updateResult = [p \in procs |-> "none"]
  /\ ret = [p \in procs |-> -1]
  /\ exitCode = [p \in procs |-> -1]

\* one launch, with any argument vector, on any build
Init ==
  /\ procs = {"1"}
  /\ platform \in Platforms
  /\ argv \in [procs -> Argvs]
  /\ MainInit
  /\ CoordInit
  /\ LogOff

\* the steps of main() before the single-instance check
Preamble(p) ==
  \/ ScanArg(p) \/ ScanDone(p) \/ AppendArgs(p) \/ PreinitQt(p) \/ CreateApp(p)
  \/ SetupCrashDumper(p)

\* the single-instance check
Unique(p) == TryAcquire(p) \/ ProbeChannel(p) \/ ReclaimLock(p)

\* the steps of main() of a Leader
Startup(p) ==
  \/ InstallSignals(p) \/ InitLogger(p) \/ CheckForUpdates(p) \/ QuitForUpdate(p)
  \/ ComponentsInitialize(p) \/ InitWebEngine(p)
  \/ ConnectToHelper(p) \/ UpdateLogLevel(p) \/ LoadUI(p) \/ Exec(p)
  \/ ExecReturn(p) \/ Unload(p) \/ DeleteUniqueApp(p)

Handler(p) == CatchFault(p) \/ ErrorReturn(p)

Next ==
  \E p \in {"1"} :
    Preamble(p) \/ Unique(p) \/ Startup(p) \/ InitD3D(p) \/ Throw(p) \/ Handler(p)

Spec == Init /\ [][Next]_vars

\* main is sequential code: once at app.quit() it goes on and returns
FairSpec == Spec /\ \A p \in {"1"} : WF_vars(QuitForUpdate(p))

\* the flag loop is sequential code: it goes on to its next iteration
FairScan == Spec /\ \A p \in {"1"} : WF_vars(ScanArg(p))

Launches == { ToString(i) : i \in 1..NumProcs }

\* several launches of a Linux build at once, each at its single-instance check
\* (the steps before it touch nothing the launches share)
InitInstances ==
  /\ procs = Launches
  /\ platform = "linux"
  /\ argv = [p \in procs |-> <<Prog, FileArg>>]
  /\ pc = [p \in procs |-> "ensureUnique"]
  /\ n = [p \in procs |-> 2]
  /\ startHidden = [p \in procs |-> FALSE]
  /\ newArgc = [p \in procs |-> Len(ArgList(argv[p], platform))]
  /\ newArgv = [p \in procs |->
                  [i \in 1..newArgc[p] |-> CopiedArg(argv[p], platform, i)]]
  /\ oob = [p \in procs |-> {}]
  /\ calls = [p \in procs |-> <<"appendCommandLineArguments", "preinitQt",
                                "QGuiApplication", "setupCrashDumper">>]
  /\ faultAt = [p \in procs |-> "none"]
  /\ uniqueResult = [p \in procs |-> "none"]
  /\ updateResult = [p \in procs |-> "none"]
  /\ ret = [p \in procs |-> -1]
  /\ exitCode = [p \in procs |-> -1]
  /\ CoordInit
  /\ LogOff

\* a launch that is running may die at any time
NextInstances ==
  \E p \in Launches : Unique(p) \/ Startup(p) \/ Throw(p) \/ Handler(p) \/ Crash(p)

SpecInstances == InitInstances /\ [][NextInstances]_vars

\* the logging callback on one message
InitLog ==
  /\ procs = {}
  /\ platform = "linux"
  /\ argv = << >>
  /\ MainInit
  /\ lockOwner = NoProc
  /\ listening = {}
  /\ inbox = [q \in {Prior} |-> {}]
  /\ observed = << >>
  /\ tries = << >>
  /\ msg \in Messages
  /\ msg0 = msg
  /\ start = 0
  /\ substring = << >>
  /\ chars = 0
  /\ masked = {}
  /\ logpc = "idle"

NextLog == ProcessLogEnter \/ ElideIterate \/ ElideBreak

SpecLog == InitLog /\ [][NextLog]_vars

\* every string over `alphabet` of at most k characters
Strings(alphabet, k) == UNION { [1..i -> alphabet] : i \in 0..k }

\* elidePattern called on its own: any short message over a two-letter
\* alphabet that contains the masking character, any non-empty pattern, any
\* non-negative mask length
InitElide ==
  /\ procs = {}
  /\ platform = "linux"
  /\ argv = << >>
  /\ MainInit
  /\ lockOwner = NoProc
  /\ listening = {}
  /\ inbox = [q \in {Prior} |-> {}]
  /\ observed = << >>
  /\ tries = << >>
  /\ msg \in Strings({"a", "x"}, MaxMsg)
  /\ msg0 = msg
  /\ substring \in Strings({"a", "x"}, MaxPat) \ {<< >>}
  /\ chars \in 0..MaxChars
  /\ start = 0
  /\ masked = {}
  /\ logpc = "elide"

NextElide == ElideIterate \/ ElideBreak

SpecElide == InitElide /\ [][NextElide]_vars

\* elidePattern is sequential code: its loop goes on until it breaks
FairElide == SpecElide /\ WF_vars(NextElide)

---------------------------------------------------------------------------
(* Properties of main. *)

\* the calls of the handler, main.cpp:295-311
HandlerCalls == {"QLOG_FATAL", "errorApp", "errorView", "errorExec"}

\* c was called, after setupCrashDumper had returned
AfterCrashDumper(p, c) ==
  Called(p, c) =>
    /\ Completed(p, "setupCrashDumper")
    /\ IndexOfCall(p, "setupCrashDumper") < IndexOfCall(p, c)

\* once CheckForUpdates() has returned true the process only quits and exits
\* with code 0, and has invoked none of initialize(), loadUI(), app.exec()
UpdateGateHolds ==
  \A p \in procs :
    updateResult[p] = "update" =>
      /\ pc[p] \in {"quit", "exited"}
      /\ pc[p] = "exited" => exitCode[p] = 0
      /\ ~Called(p, "initialize") /\ ~Called(p, "loadUI") /\ ~Called(p, "exec")

\* C1: in every run in which CheckForUpdates() returns true, ComponentManager
\* initialize(), loadUI() and the event loop are never invoked, and the
\* process terminates with exit code 0.
C1_UpdateGate ==
  /\ []UpdateGateHolds
  /\ \A p \in {"1"} :
       (updateResult[p] = "update") ~> (pc[p] = "exited" /\ exitCode[p] = 0)

C1_Witness == \E p \in procs : updateResult[p] = "update" /\ pc[p] = "exited"

\* C2: a process whose ensureUnique() reported that it is not the Leader has
\* exited with code 0, and ensureUnique was the last call it made: no signal
\* handlers, no logger, no update check, no initialize(), no UI.
C2_YieldsToLeader ==
  \A p \in procs :
    uniqueResult[p] = "forwarded" =>
      /\ pc[p] = "exited"
      /\ exitCode[p] = 0
      /\ calls[p][Len(calls[p])] = "ensureUnique"

C2_Witness ==
  \E p \in procs : uniqueResult[p] = "forwarded" /\ p \in inbox[Prior]

\* the process has passed the single-instance check and is alive
RunsAsLeader(p) ==
  /\ Completed(p, "ensureUnique")
  /\ pc[p] \notin {"probe", "reclaim", "exited", "crashed"}

Leaders == { p \in procs : RunsAsLeader(p) } \cup (listening \cap {Prior})

Collaborators ==
  {"readPreinitValue", "QGuiApplication", "ensureUnique", "SignalManager",
   "initLogger", "CheckForUpdates", "initD3DDevice", "initialize", "QtWebEngine",
   "connectToHelper", "updateLogLevel", "loadUI", "exec", "unload"}

\* the original statement of C4: no collaborator is invoked before the crash
\* reporter is installed
C4_CrashDumperFirst ==
  \A p \in procs : \A c \in Collaborators : AfterCrashDumper(p, c)

\* C4 (amended): setupCrashDumper comes after the argument handling, preinitQt
\* (with its pre-init settings read) and the construction of the GUI
\* application object, and before every other collaborator of the startup
\* sequence.
C4_CrashDumperBeforeInstanceCheck ==
  \A p \in procs :
    \A c \in Collaborators \ {"readPreinitValue", "QGuiApplication"} :
      AfterCrashDumper(p, c)

C4_Witness ==
  \E p \in procs : Called(p, "readPreinitValue") /\ Called(p, "initialize")

C6_UiAfterComponents ==
  \A p \in procs : \A c \in {"loadUI", "unload"} :
    Called(p, c) =>
      /\ Completed(p, "initialize")
      /\ IndexOfCall(p, "initialize") < IndexOfCall(p, c)

C6_Witness ==
  \E p \in procs : Called(p, "unload") /\ ~Called(p, "loadUI")

\* a FatalException was raised before the event loop was entered
StartupFault(p) == faultAt[p] # "none" /\ ~Called(p, "exec")

\* C7: after a FatalException raised during startup the process is in the
\* handler or has ended; the only calls made after the faulting call are the
\* handler's; the error view has been shown once the handler's event loop
\* runs, and the exit code is 1.
C7_FatalStartupFault ==
  \A p \in procs :
    StartupFault(p) =>
      /\ pc[p] \in {"catch", "errorRunning", "exited"}
      /\ \A i \in 1..Len(calls[p]) :
           i > IndexOfCall(p, faultAt[p]) => calls[p][i] \in HandlerCalls
      /\ pc[p] \in {"errorRunning", "exited"} => Called(p, "errorView")
      /\ pc[p] = "exited" => exitCode[p] = 1

C7_Witness ==
  \E p \in procs : faultAt[p] = "initialize" /\ pc[p] = "exited"

C11_ExitCodes ==
  \A p \in procs :
    pc[p] = "exited" =>
      /\ faultAt[p] = "none" => exitCode[p] = 0
      /\ StartupFault(p) => exitCode[p] # 0
      /\ exitCode[p] # 0 => StartupFault(p)

\* C11 (amended): a run that ends by return of the event loop exits with the
\* code the event loop returned; a run that ends by the license flag, by
\* yielding to the Leader or by the update exit exits with 0; a run that ends
\* in the fatal-fault handler exits with 1, whether the fault was raised
\* during startup, in the event loop or in unload().
C11_ExitCodeOfRun ==
  \A p \in procs :
    pc[p] = "exited" =>
      /\ faultAt[p] # "none" => exitCode[p] = 1
      /\ (faultAt[p] = "none" /\ ret[p] # -1) => exitCode[p] = ret[p]
      /\ (faultAt[p] = "none" /\ ret[p] = -1) =>
           /\ exitCode[p] = 0
           /\ \/ Called(p, "printLicenses")
              \/ uniqueResult[p] = "forwarded"
              \/ updateResult[p] = "update"

C11_Witness ==
  \E p \in procs :
    pc[p] = "exited" /\ faultAt[p] = "none" /\ ret[p] > 0 /\ exitCode[p] = ret[p]

\* the calls that emit a log record through the QsLog logger
LogRecords == {"QLOG_INFO", "QLOG_FATAL"}

\* C12: in every run, including the runs that end in the fatal-fault handler,
\* no log record is emitted before initLogger has completed.
C12_LoggingFirst ==
  \A p \in procs : \A i \in 1..Len(calls[p]) :
    calls[p][i] \in LogRecords =>
      /\ Completed(p, "initLogger")
      /\ IndexOfCall(p, "initLogger") < i

\* "--licenses" is one of the arguments after the program name
HasLicenses(p) == \E i \in 2..Len(argv[p]) : argv[p][i] = Licenses

\* the run is scanning its arguments, or has printed the license text and
\* returned 0, and has made no other call
LicenseGate(p) ==
  /\ pc[p] \in {"scan", "exited"}
  /\ calls[p] = IF pc[p] = "exited" THEN <<"printLicenses">> ELSE << >>
  /\ pc[p] = "exited" => exitCode[p] = 0

\* C13: a run whose argument vector contains "--licenses" at any position
\* after the program name, whatever precedes or follows it, prints the license
\* text and exits with code 0, and makes no other call: no GUI application
\* object, crash reporter, single-instance check, logger, update check or
\* component initialization.
C13_LicenseFlag ==
  /\ [](\A p \in procs : HasLicenses(p) => LicenseGate(p))
  /\ \A p \in {"1"} :
       HasLicenses(p) ~>
         (pc[p] = "exited" /\ exitCode[p] = 0 /\ calls[p] = <<"printLicenses">>)

C13_Witness ==
  \E p \in procs :
    /\ argv[p] = <<Prog, Hidden, Licenses>>
    /\ startHidden[p]
    /\ pc[p] = "exited"
    /\ calls[p] = <<"printLicenses">>

LifecycleSteps ==
  <<"setupCrashDumper", "ensureUnique", "initLogger", "CheckForUpdates",
    "initialize", "loadUI", "exec", "unload">>
LifecycleStepsHidden ==
  SelectSeq(LifecycleSteps, LAMBDA c : c # "loadUI")

\* the lifecycle steps the run has executed, in the order it executed them
StepsOf(p) ==
  SelectSeq(calls[p], LAMBDA c : c \in { LifecycleSteps[i] : i \in 1..Len(LifecycleSteps) })

IsPrefix(s, t) == Len(s) <= Len(t) /\ \A i \in 1..Len(s) : s[i] = t[i]

\* C15: in every run in which no fault was raised, the lifecycle steps
\* executed are a prefix of crash-reporter install, single-instance check,
\* logger init, update check, initialize(), (optional) loadUI(), event loop,
\* unload(): none is executed twice or out of order, the logger is initialized
\* only once the single-instance check has returned Leader, and unload() is
\* invoked only once the event loop has returned.
C15_ForwardOnly ==
  \A p \in procs :
    faultAt[p] = "none" =>
      /\ IsPrefix(StepsOf(p), LifecycleSteps) \/ IsPrefix(StepsOf(p), LifecycleStepsHidden)
      /\ Called(p, "initLogger") => uniqueResult[p] = "leader"
      /\ Called(p, "initialize") => updateResult[p] = "noupdate"
      /\ Called(p, "unload") => ret[p] # -1

C15_Witness ==
  \E p \in procs :
    faultAt[p] = "none" /\ pc[p] = "exited" /\ StepsOf(p) = LifecycleSteps

\* "--hidden" is one of the arguments after the program name
HasHidden(p) == \E i \in 2..Len(argv[p]) : argv[p][i] = Hidden

\* the number of times the run has called c
CountOf(p, c) == Cardinality({ i \in 1..Len(calls[p]) : calls[p][i] = c })

C17_UnloadOnlyAfterLoadUI ==
  \A p \in procs :
    Called(p, "unload") =>
      /\ Called(p, "loadUI")
      /\ IndexOfCall(p, "loadUI") < IndexOfCall(p, "unload")

\* C17 (amended): unload() is invoked only once the event loop has returned,
\* and then whether or not loadUI() was invoked: a run that has invoked
\* unload() has invoked loadUI() before it exactly if it was not started
\* hidden.
C17_UnloadAfterEventLoop ==
  \A p \in procs :
    Called(p, "unload") =>
      /\ ret[p] # -1
      /\ IndexOfCall(p, "exec") > 0
      /\ IndexOfCall(p, "exec") < IndexOfCall(p, "unload")
      /\ Called(p, "loadUI") <=> ~startHidden[p]
      /\ Called(p, "loadUI") => IndexOfCall(p, "loadUI") < IndexOfCall(p, "exec")

C17_Witness ==
  \E p \in procs :
    /\ startHidden[p] /\ pc[p] = "exited" /\ faultAt[p] = "none"
    /\ Completed(p, "unload") /\ ~Called(p, "loadUI")

---------------------------------------------------------------------------
(* Properties of the log redaction and of the argument vector. *)

\* the positions (0-based) at which pat occurs in m
Occurrences(m, pat) ==
  { i \in 0..(Len(m) - Len(pat)) : \A j \in 1..Len(pat) : m[i + j] = pat[j] }

\* the characters that end a parameter's value in a logged URL
Delimiters == {"&", "?"}

\* the position (0-based) just past the token value that starts at `from`
TokenEnd(m, from) ==
  Min({ j \in from..Len(m) : j = Len(m) \/ m[j + 1] \in Delimiters })

\* C9: in the message processLog leaves, every character of every token value
\* that followed a sensitive-token pattern in the original message is 'x'.
C9_TokensMasked ==
  logpc = "done" =>
    \A pat \in Patterns : \A i \in Occurrences(msg0, pat) :
      \A k \in (i + Len(pat))..(TokenEnd(msg0, i + Len(pat)) - 1) :
        msg[k + 1] = "x"

\* C18: elidePattern terminates for every message, every non-empty pattern and
\* every non-negative mask length: the search position stays within the
\* message, every iteration of the loop strictly advances it, and the loop is
\* left, with no occurrence at or after the search position that fits in the
\* message together with its mask.
C18_ElideTerminates ==
  /\ [](logpc \in Eliding => start \in 0..Len(msg))
  /\ [][(logpc \in Eliding /\ logpc' = logpc) => start' > start]_vars
  /\ [](logpc = "done" => (start < 0 \/ start + Len(substring) + chars > Len(msg)))
  /\ <>(logpc = "done")

C18_Witness ==
  /\ logpc = "done"
  /\ substring = <<"x">>
  /\ chars > 0
  /\ Cardinality(masked) >= 2

\* the characters processLog has changed lie within the ElideChars positions
\* directly following an occurrence of one of the two patterns
ChangesFollowPattern ==
  \A k \in 1..Len(msg) :
    msg[k] # msg0[k] =>
      \E pat \in Patterns : \E i \in Occurrences(msg0, pat) :
        k - 1 \in (i + Len(pat))..(i + Len(pat) + ElideChars - 1)

\* the original statement of C19: the length is unchanged, only characters
\* within the 20 positions after an occurrence change, the pattern text of
\* every masked occurrence is unchanged, and a message with neither pattern is
\* unchanged
C19_RedactionFrame ==
  logpc = "done" =>
    /\ Len(msg) = Len(msg0)
    /\ ChangesFollowPattern
    /\ \A o \in masked : \A j \in 1..Len(o[1]) : msg[o[2] + j] = msg0[o[2] + j]
    /\ (\A pat \in Patterns : Occurrences(msg0, pat) = {}) => msg = msg0

\* the positions (0-based) of the mask written after the occurrence o
MaskOf(o) == (o[2] + Len(o[1]))..(o[2] + Len(o[1]) + ElideChars - 1)

\* C19 (amended): processLog leaves the length of the message unchanged; every
\* character it changes becomes 'x' and lies within the 20 positions directly
\* following an occurrence of one of the two patterns in the original message;
\* a message containing neither pattern is unchanged.  Every masked occurrence
\* is an occurrence of the original message and the 20 characters after it are
\* 'x'.  The pattern text of a masked occurrence of "X-Plex-Token%3D" is
\* unchanged; the pattern text of a masked occurrence of "X-Plex-Token=" is
\* unchanged except for the characters that lie within the 20 positions
\* following a masked occurrence of "X-Plex-Token%3D".
C19_RedactionFrameOverlap ==
  logpc = "done" =>
    /\ Len(msg) = Len(msg0)
    /\ ChangesFollowPattern
    /\ \A k \in 1..Len(msg) : msg[k] \in {msg0[k], "x"}
    /\ (\A pat \in Patterns : Occurrences(msg0, pat) = {}) => msg = msg0
    /\ \A o \in masked :
         /\ o[2] \in Occurrences(msg0, o[1])
         /\ \A k \in MaskOf(o) : msg[k + 1] = "x"
         /\ \A j \in 1..Len(o[1]) :
              \/ msg[o[2] + j] = msg0[o[2] + j]
              \/ /\ o[1] = TokenEq
                 /\ \E q \in masked : q[1] = TokenPct /\ o[2] + j - 1 \in MaskOf(q)

\* the mask after a "X-Plex-Token%3D" has overwritten the pattern text of a
\* "X-Plex-Token=" whose value had been masked before
C19_Witness ==
  /\ logpc = "done"
  /\ \E o \in masked :
       /\ o[1] = TokenEq
       /\ \E j \in 1..Len(o[1]) : msg[o[2] + j] # msg0[o[2] + j]

\* C10: the vector appendCommandLineArguments builds is the original vector,
\* each argument unchanged, followed by the appended flags; its count is the
\* original count plus the number of flags; no write falls outside newArgs or
\* outside a buffer.
C10_ArgumentsPassThrough ==
  \A p \in procs :
    Called(p, "appendCommandLineArguments") =>
      /\ newArgc[p] = Len(argv[p]) + Len(AppendedFlags(platform))
      /\ newArgv[p] = argv[p] \o AppendedFlags(platform)
      /\ oob[p] = {}

====
